---- MODULE Spec2Model ----
(***************************************************************************)
(* Model of src/main.js: calculateSimpleRevenue, calculateBonusByProfit    *)
(* and analyzeSalesData.                                                   *)
(*                                                                         *)
(* Money is an integer number of millionths of a currency unit (1.00 =     *)
(* 1000000, 0.01 = 10000, 0.125 = 125000).  The inputs are whole cents or  *)
(* binary fractions and whole percents, so every product and quotient the  *)
(* code forms is an integer here and \div is exact.  Floating-point        *)
(* representation error of the JavaScript numbers is not modelled.         *)
(***************************************************************************)
EXTENDS Integers, Sequences, FiniteSets, TLC

VARIABLES
  data,         \* the dataset argument: sellers, products, purchase_records
  dataKind,     \* what typeof / Array.isArray see of data and its collections
  options,      \* the options argument: its kind and its two fields
  pc,           \* position of the running call
  error,        \* the Error thrown by the call, "none" otherwise
  sellerStats,  \* const sellerStats (array of aggregates)
  sellerIndex,  \* const sellerIndex: id -> element of sellerStats
  productIndex, \* const productIndex: sku -> element of data.products
  rIdx,         \* forEach position in data.purchase_records
  revCalls,     \* arguments of the calculateRevenue invocations of the call
  bonusCalls,   \* arguments of the calculateBonus invocations of the call
  results,      \* values returned by the completed calls, oldest first
  calls         \* number of calls of analyzeSalesData started

vars == <<data, dataKind, options, pc, error, sellerStats, sellerIndex,
          productIndex, rIdx, revCalls, bonusCalls, results, calls>>

----------------------------------------------------------------------------
\* Bounds of the model

MaxCalls == 2
MaxSellers == 5
MaxRecords == 2
MaxItems == 3
MaxProducts == 2

----------------------------------------------------------------------------
\* Generic helpers

RECURSIVE SumSeq(_)
SumSeq(s) == IF s = <<>> THEN 0 ELSE Head(s) + SumSeq(Tail(s))

RECURSIVE Flatten(_)
Flatten(ss) == IF ss = <<>> THEN <<>> ELSE Head(ss) \o Flatten(Tail(ss))

SeqsUpTo(S, lo, hi) == UNION {[1..n -> S] : n \in lo..hi}

Take(s, n) == SubSeq(s, 1, IF Len(s) < n THEN Len(s) ELSE n)

----------------------------------------------------------------------------
\* calculateSimpleRevenue: sale_price * quantity * (1 - discount / 100)

calculateSimpleRevenue(purchase, _product) ==
  (purchase.sale_price * purchase.quantity * (100 - purchase.discount)) \div 100

\* A caller-supplied revenue strategy other than the default: list price,
\* the discount ignored.
customRevenue(purchase, _product) == purchase.sale_price * purchase.quantity

----------------------------------------------------------------------------
\* calculateBonusByProfit

calculateBonusLastFirst(index, total, seller) ==
  IF index = total - 1 THEN 0
  ELSE IF index = 0 THEN (seller.profit * 15) \div 100
  ELSE IF index = 1 \/ index = 2 THEN (seller.profit * 10) \div 100
  ELSE (seller.profit * 5) \div 100

calculateBonusByProfit(index, total, seller) ==
  IF index = 0 THEN (seller.profit * 15) \div 100
  ELSE IF index = 1 \/ index = 2 THEN (seller.profit * 10) \div 100
  ELSE IF index = total - 1 THEN 0
  ELSE (seller.profit * 5) \div 100

\* A caller-supplied bonus strategy other than the default: 1% per seller
\* ranked below.
customBonus(index, total, seller) ==
  (seller.profit * (total - 1 - index)) \div 100

----------------------------------------------------------------------------
\* Invocation of the injected strategies (options.calculateRevenue,
\* options.calculateBonus hold the name of the function passed)

RevenueFunctions == {"calculateSimpleRevenue", "customRevenue"}
BonusFunctions == {"calculateBonusByProfit", "customBonus"}

calculateRevenue(item, product) ==
  IF options.calculateRevenue = "calculateSimpleRevenue"
    THEN calculateSimpleRevenue(item, product)
    ELSE customRevenue(item, product)

calculateBonus(index, total, seller) ==
  IF options.calculateBonus = "calculateBonusByProfit"
    THEN calculateBonusByProfit(index, total, seller)
    ELSE customBonus(index, total, seller)

----------------------------------------------------------------------------
\* JavaScript objects used as maps.  An object is the sequence of its own
\* properties [key, value] in creation order.

ObjHas(obj, k) == \E i \in 1..Len(obj) : obj[i].key = k

ObjGet(obj, k) == obj[CHOOSE i \in 1..Len(obj) : obj[i].key = k].value

ObjSet(obj, k, v) ==
  IF ObjHas(obj, k)
    THEN [i \in 1..Len(obj) |->
            IF obj[i].key = k THEN [key |-> k, value |-> v] ELSE obj[i]]
    ELSE Append(obj, [key |-> k, value |-> v])

\* Property keys that are canonical array indices, in ascending numeric
\* order.  OrdinaryOwnPropertyKeys lists these first, ascending, and every
\* other string key after them in creation order.
ArrayIndexKeys == <<"1", "2">>

IsArrayIndex(k) == \E i \in 1..Len(ArrayIndexKeys) : ArrayIndexKeys[i] = k

IsOtherKey(e) == ~IsArrayIndex(e.key)

ObjectEntries(obj) ==
  Flatten([i \in 1..Len(ArrayIndexKeys) |->
             IF ObjHas(obj, ArrayIndexKeys[i])
               THEN <<[key |-> ArrayIndexKeys[i],
                       value |-> ObjGet(obj, ArrayIndexKeys[i])]>>
               ELSE <<>>])
  \o SelectSeq(obj, IsOtherKey)

\* Object.fromEntries over an array keyed by keyOf: a later entry with the
\* same key replaces an earlier one.  The value is the position in the array.
LastPosition(keys, k) ==
  CHOOSE i \in 1..Len(keys) :
    keys[i] = k /\ \A j \in 1..Len(keys) : keys[j] = k => j <= i

FromEntries(keys) ==
  [k \in {keys[i] : i \in 1..Len(keys)} |-> LastPosition(keys, k)]

----------------------------------------------------------------------------
\* Array.prototype.sort with a comparator (a, b) => key(b) - key(a).  The
\* sort is stable: elements the comparator reports equal keep their order.
\* The result is the sequence of positions of the input, in sorted order.

SortCompareAscending(keys, a, b) == keys[a] - keys[b]

SortCompare(keys, a, b) == keys[b] - keys[a]

RECURSIVE SortInsert(_, _, _)
SortInsert(sorted, i, keys) ==
  IF sorted = <<>> THEN <<i>>
  ELSE IF SortCompare(keys, Head(sorted), i) > 0 THEN <<i>> \o sorted
  ELSE <<Head(sorted)>> \o SortInsert(Tail(sorted), i, keys)

RECURSIVE SortOrder(_, _)
SortOrder(keys, n) ==
  IF n = 0 THEN <<>> ELSE SortInsert(SortOrder(keys, n - 1), n, keys)

SortDescending(arr, keys) ==
  LET order == SortOrder(keys, Len(arr))
  IN [i \in 1..Len(arr) |-> arr[order[i]]]

----------------------------------------------------------------------------
\* Number.prototype.toFixed(2) followed by unary plus.  toFixed takes the
\* sign off, picks the integer n with n / 100 closest to the value, the
\* larger n when two are equally close, and prints sign and digits; unary
\* plus reads the string back as a number.

toFixedTruncating(x) ==
  LET a == IF x < 0 THEN -x ELSE x
  IN [negative |-> x < 0, hundredths |-> a \div 10000]

toFixed(x) ==
  LET a == IF x < 0 THEN -x ELSE x
      lo == a \div 10000
      n == IF 2 * (a - lo * 10000) >= 10000 THEN lo + 1 ELSE lo
  IN [negative |-> x < 0, hundredths |-> n]

UnaryPlus(s) ==
  IF s.negative THEN -(s.hundredths * 10000) ELSE s.hundredths * 10000

----------------------------------------------------------------------------
\* Input data the calls are run on

SellerIdList ==
  <<"seller_1", "seller_2", "seller_3", "seller_4", "seller_5", "seller_6",
    "seller_7", "seller_8">>

FirstNameList == <<"Ann", "Bob", "Cid", "Dan", "Eve", "Fay", "Gus", "Hal">>

UnknownSellerId == "seller_0"

Seller(i, id) == [id |-> id, first_name |-> FirstNameList[i], last_name |-> "Doe"]

CardTwo == [sku |-> "2", purchase_price |-> 0]
CardOne == [sku |-> "1", purchase_price |-> 187500]
CardA == [sku |-> "SKU_A", purchase_price |-> 0]
CardTwoDear == [sku |-> "2", purchase_price |-> 250000]

ItemTwo == [sku |-> "2", sale_price |-> 500000, quantity |-> 1, discount |-> 75]
ItemOne == [sku |-> "1", sale_price |-> 500000, quantity |-> 2, discount |-> 75]
ItemA == [sku |-> "SKU_A", sale_price |-> 130000, quantity |-> 1, discount |-> 0]
ItemTwoBulk == [sku |-> "2", sale_price |-> 500000, quantity |-> 2, discount |-> 50]

Amounts == {125000, 1000000}

DefaultOptions ==
  [kind |-> "object", calculateRevenue |-> "calculateSimpleRevenue",
   calculateBonus |-> "calculateBonusByProfit"]

CustomOptions ==
  [kind |-> "object", calculateRevenue |-> "customRevenue",
   calculateBonus |-> "customBonus"]

WellFormedKind ==
  [data |-> "object", sellers |-> "array", products |-> "array",
   purchase_records |-> "array"]

Input(d, o) == [data |-> d, dataKind |-> WellFormedKind, options |-> o]

\* Two sellers, one product; up to MaxRecords receipts, each for a known or
\* an unknown seller, with or without line items.
RecordPool ==
  [seller_id : {SellerIdList[1], SellerIdList[2], UnknownSellerId},
   total_amount : Amounts,
   items : {<<>>, <<ItemTwoBulk, ItemOne>>}]

RecordsInputs ==
  {Input([sellers |-> <<Seller(1, SellerIdList[1]), Seller(2, SellerIdList[2])>>,
          products |-> <<CardTwo>>,
          purchase_records |-> rs], o) :
     rs \in SeqsUpTo(RecordPool, 1, MaxRecords),
     o \in {DefaultOptions, CustomOptions}}

\* One seller, one receipt of up to MaxItems line items, over product lists
\* that may lack a sku or list a sku twice.
ItemsInputs ==
  {Input([sellers |-> <<Seller(1, SellerIdList[1])>>,
          products |-> <<CardA>> \o ps,
          purchase_records |->
            <<[seller_id |-> SellerIdList[1], total_amount |-> 1000000,
               items |-> its]>>], DefaultOptions) :
     ps \in SeqsUpTo({CardTwo, CardOne, CardTwoDear}, 0, MaxProducts),
     its \in SeqsUpTo({ItemTwo, ItemOne, ItemA}, 0, MaxItems)}

\* Up to MaxSellers sellers with one receipt of one line item each; the last
\* seller may carry the id of the first.
RankItems == {ItemTwo, ItemOne, ItemA}

RankSellers(n, dup) ==
  [i \in 1..n |->
     Seller(i, IF dup /\ i = n THEN SellerIdList[1] ELSE SellerIdList[i])]

RankInputs ==
  {Input([sellers |-> RankSellers(n, dup),
          products |-> <<CardTwo, CardOne, CardA>>,
          purchase_records |->
            [i \in 1..n |->
               [seller_id |-> SellerIdList[i],
                total_amount |-> its[i].sale_price * its[i].quantity,
                items |-> <<its[i]>>]]], o) :
     n \in 1..MaxSellers, dup \in BOOLEAN, its \in [1..MaxSellers -> RankItems],
     o \in {DefaultOptions, CustomOptions}}

\* One seller who sold twelve skus, in falling, equal or rising quantities.
TwelveSkus ==
  <<"SKU_01", "SKU_02", "SKU_03", "SKU_04", "SKU_05", "SKU_06", "SKU_07",
    "SKU_08", "SKU_09", "SKU_10", "SKU_11", "SKU_12">>

TwelveInputs ==
  {Input([sellers |-> <<Seller(1, SellerIdList[1])>>,
          products |-> [i \in 1..12 |-> [sku |-> TwelveSkus[i], purchase_price |-> 0]],
          purchase_records |->
            <<[seller_id |-> SellerIdList[1], total_amount |-> 1000000,
               items |-> [i \in 1..12 |->
                            [sku |-> TwelveSkus[i], sale_price |-> 10000,
                             quantity |-> IF shape = "falling" THEN 13 - i
                                          ELSE IF shape = "rising" THEN i ELSE 1,
                             discount |-> 0]]]>>], DefaultOptions) :
     shape \in {"falling", "equal", "rising"}}

\* Arguments of every shape the validation distinguishes.
CollectionKinds == {"undefined", "object", "emptyArray", "array"}

SomeData ==
  [sellers |-> <<Seller(1, SellerIdList[1])>>,
   products |-> <<CardTwo>>,
   purchase_records |->
     <<[seller_id |-> SellerIdList[1], total_amount |-> 125000,
        items |-> <<ItemTwo>>]>>]

ShapedData(ks, kp, kr) ==
  [sellers |-> IF ks = "array" THEN SomeData.sellers ELSE <<>>,
   products |-> IF kp = "array" THEN SomeData.products ELSE <<>>,
   purchase_records |-> IF kr = "array" THEN SomeData.purchase_records ELSE <<>>]

IsArrayKind(k) == IF k = "emptyArray" THEN "array" ELSE k

DataShapes ==
  {[data |-> ShapedData("undefined", "undefined", "undefined"),
    dataKind |-> [data |-> k, sellers |-> "undefined", products |-> "undefined",
                  purchase_records |-> "undefined"]] :
     k \in {"undefined", "null", "number"}}
  \cup
  {[data |-> ShapedData(ks, kp, kr),
    dataKind |-> [data |-> "object", sellers |-> IsArrayKind(ks),
                  products |-> IsArrayKind(kp),
                  purchase_records |-> IsArrayKind(kr)]] :
     ks \in CollectionKinds, kp \in CollectionKinds, kr \in CollectionKinds}

FieldKinds == {"undefined", "string"}

OptionShapes ==
  {[kind |-> k, calculateRevenue |-> "undefined", calculateBonus |-> "undefined"] :
     k \in {"undefined", "null", "string", "function"}}
  \cup
  [kind : {"object"},
   calculateRevenue : FieldKinds \cup {"calculateSimpleRevenue"},
   calculateBonus : FieldKinds \cup {"calculateBonusByProfit"}]

ShapeInputs ==
  {[data |-> d.data, dataKind |-> d.dataKind, options |-> o] :
     d \in DataShapes, o \in OptionShapes}

Inputs == RecordsInputs \cup ItemsInputs \cup RankInputs \cup TwelveInputs \cup ShapeInputs

----------------------------------------------------------------------------
\* analyzeSalesData

Init ==
  /\ \E inp \in Inputs :
       /\ data = inp.data
       /\ dataKind = inp.dataKind
       /\ options = inp.options
  /\ pc = "start"
  /\ error = "none"
  /\ sellerStats = <<>>
  /\ sellerIndex = <<>>
  /\ productIndex = <<>>
  /\ rIdx = 0
  /\ revCalls = <<>>
  /\ bonusCalls = <<>>
  /\ results = <<>>
  /\ calls = 1

\* Steps 1 and 2: the three throws
DataInvalidEmptyProductsAllowed ==
  \/ dataKind.data \in {"undefined", "null"}
  \/ dataKind.sellers # "array"
  \/ dataKind.products # "array"
  \/ dataKind.purchase_records # "array"
  \/ Len(data.sellers) = 0
  \/ Len(data.purchase_records) = 0

DataInvalid ==
  \/ dataKind.data \in {"undefined", "null"}
  \/ dataKind.sellers # "array"
  \/ dataKind.products # "array"
  \/ dataKind.purchase_records # "array"
  \/ Len(data.sellers) = 0
  \/ Len(data.products) = 0
  \/ Len(data.purchase_records) = 0

OptionsInvalid ==
  \/ options.kind \in {"undefined", "null"}
  \/ options.kind # "object"

IsFunction(f) == f \in RevenueFunctions \cup BonusFunctions

StrategyInvalid ==
  \/ options.calculateRevenue = "undefined"
  \/ options.calculateBonus = "undefined"
  \/ ~IsFunction(options.calculateRevenue)
  \/ ~IsFunction(options.calculateBonus)

Validate ==
  /\ pc = "start"
  /\ IF DataInvalid THEN pc' = "error" /\ error' = "InvalidDataset"
     ELSE IF OptionsInvalid THEN pc' = "error" /\ error' = "InvalidOptions"
     ELSE IF StrategyInvalid THEN pc' = "error" /\ error' = "MissingStrategy"
     ELSE pc' = "prepare" /\ error' = error
  /\ UNCHANGED <<data, dataKind, options, sellerStats, sellerIndex, productIndex,
                 rIdx, revCalls, bonusCalls, results, calls>>

\* Steps 3 and 4: sellerStats, sellerIndex, productIndex
SharedSellerStats(sellers) ==
  IF Len(sellerStats) = Len(sellers)
    THEN [i \in 1..Len(sellers) |->
            [id |-> sellerStats[i].id, name |-> sellerStats[i].name,
             revenue |-> sellerStats[i].revenue, profit |-> sellerStats[i].profit,
             sales_count |-> sellerStats[i].sales_count,
             products_sold |-> sellerStats[i].products_sold]]
    ELSE [i \in 1..Len(sellers) |->
            [id |-> sellers[i].id,
             name |-> <<sellers[i].first_name, " ", sellers[i].last_name>>,
             revenue |-> 0, profit |-> 0, sales_count |-> 0,
             products_sold |-> <<>>]]

NewSellerStats(sellers) ==
  [i \in 1..Len(sellers) |->
     [id |-> sellers[i].id,
      name |-> <<sellers[i].first_name, " ", sellers[i].last_name>>,
      revenue |-> 0, profit |-> 0, sales_count |-> 0,
      products_sold |-> <<>>]]

NewProductIndex(products) ==
  LET at == FromEntries([i \in 1..Len(products) |-> products[i].sku])
  IN [k \in DOMAIN at |-> products[at[k]]]

Prepare ==
  /\ pc = "prepare"
  /\ sellerStats' = NewSellerStats(data.sellers)
  /\ sellerIndex' = FromEntries([i \in 1..Len(data.sellers) |-> data.sellers[i].id])
  /\ productIndex' = NewProductIndex(data.products)
  /\ rIdx' = 1
  /\ pc' = "records"
  /\ UNCHANGED <<data, dataKind, options, error, revCalls, bonusCalls, results, calls>>

\* Stage 3, step 1: one purchase record with all its line items
AddSalePerItem(seller, record) ==
  [seller EXCEPT !.sales_count = @ + Len(record.items)]

AddSale(seller, record) == [seller EXCEPT !.sales_count = @ + 1]

AddItemRevenues(seller, record) ==
  [seller EXCEPT !.revenue =
     @ + SumSeq([i \in 1..Len(record.items) |->
                   calculateRevenue(record.items[i], record.items[i])])]

AddRevenue(seller, record) == [seller EXCEPT !.revenue = @ + record.total_amount]

ItemCostPerUnit(product, item) == product.purchase_price

ItemCost(product, item) == product.purchase_price * item.quantity

Falsy(obj, k) == ~ObjHas(obj, k) \/ ObjGet(obj, k) = 0

AddSold(sold, item) ==
  LET sold0 == IF Falsy(sold, item.sku) THEN ObjSet(sold, item.sku, 0) ELSE sold
  IN ObjSet(sold0, item.sku, ObjGet(sold0, item.sku) + item.quantity)

ProductFound(item) == item.sku \in DOMAIN productIndex

ProcessItemNoSkip(acc, item) ==
  IF ~ProductFound(item)
    THEN [acc EXCEPT !.seller.products_sold = AddSold(@, item)]
    ELSE LET product == productIndex[item.sku]
             cost == ItemCost(product, item)
             revenue == calculateRevenue(item, product)
             profit == revenue - cost
         IN [seller |-> [acc.seller EXCEPT !.profit = @ + profit,
                                           !.products_sold = AddSold(@, item)],
             calls |-> Append(acc.calls, [item |-> item, product |-> product])]

ProcessItem(acc, item) ==
  IF ~ProductFound(item) THEN acc
  ELSE LET product == productIndex[item.sku]
           cost == ItemCost(product, item)
           revenue == calculateRevenue(item, product)
           profit == revenue - cost
       IN [seller |-> [acc.seller EXCEPT !.profit = @ + profit,
                                         !.products_sold = AddSold(@, item)],
           calls |-> Append(acc.calls, [item |-> item, product |-> product])]

RECURSIVE ProcessItems(_, _)
ProcessItems(acc, items) ==
  IF items = <<>> THEN acc
  ELSE ProcessItems(ProcessItem(acc, Head(items)), Tail(items))

ProcessRecord ==
  /\ pc = "records"
  /\ LET record == data.purchase_records[rIdx]
     IN IF record.seller_id \notin DOMAIN sellerIndex
          THEN UNCHANGED <<sellerStats, revCalls>>
          ELSE LET at == sellerIndex[record.seller_id]
                   seller == AddRevenue(AddSale(sellerStats[at], record), record)
                   acc == ProcessItems([seller |-> seller, calls |-> revCalls],
                                       record.items)
               IN /\ sellerStats' = [sellerStats EXCEPT ![at] = acc.seller]
                  /\ revCalls' = acc.calls
  /\ rIdx' = rIdx + 1
  /\ pc' = IF rIdx = Len(data.purchase_records) THEN "sort" ELSE "records"
  /\ UNCHANGED <<data, dataKind, options, error, sellerIndex, productIndex,
                 bonusCalls, results, calls>>

\* Stage 3, step 2: sort by profit, descending
SortSellers ==
  /\ pc = "sort"
  /\ sellerStats' =
       SortDescending(sellerStats, [i \in 1..Len(sellerStats) |-> sellerStats[i].profit])
  /\ pc' = "bonus"
  /\ UNCHANGED <<data, dataKind, options, error, sellerIndex, productIndex, rIdx,
                 revCalls, bonusCalls, results, calls>>

\* Stage 3, step 3: bonus and top_products of every seller
TopLimit == 10

TopProducts(products_sold) ==
  LET entries == ObjectEntries(products_sold)
      pairs == [i \in 1..Len(entries) |->
                  [sku |-> entries[i].key, quantity |-> entries[i].value]]
      sorted == SortDescending(pairs, [i \in 1..Len(pairs) |-> pairs[i].quantity])
  IN Take(sorted, TopLimit)

AssignBonuses ==
  /\ pc = "bonus"
  /\ sellerStats' =
       [i \in 1..Len(sellerStats) |->
          [id |-> sellerStats[i].id, name |-> sellerStats[i].name,
           revenue |-> sellerStats[i].revenue, profit |-> sellerStats[i].profit,
           sales_count |-> sellerStats[i].sales_count,
           products_sold |-> sellerStats[i].products_sold,
           bonus |-> calculateBonus(i - 1, Len(sellerStats), sellerStats[i]),
           top_products |-> TopProducts(sellerStats[i].products_sold)]]
  /\ bonusCalls' =
       [i \in 1..Len(sellerStats) |-> [index |-> i - 1, total |-> Len(sellerStats)]]
  /\ pc' = "project"
  /\ UNCHANGED <<data, dataKind, options, error, sellerIndex, productIndex, rIdx,
                 revCalls, results, calls>>

\* Stage 3, step 4: the returned array
Report(seller) ==
  [seller_id |-> seller.id,
   name |-> seller.name,
   revenue |-> UnaryPlus(toFixed(seller.revenue)),
   profit |-> UnaryPlus(toFixed(seller.profit)),
   sales_count |-> seller.sales_count,
   top_products |-> seller.top_products,
   bonus |-> UnaryPlus(toFixed(seller.bonus))]

Project ==
  /\ pc = "project"
  /\ results' = Append(results, [i \in 1..Len(sellerStats) |-> Report(sellerStats[i])])
  /\ pc' = "done"
  /\ UNCHANGED <<data, dataKind, options, error, sellerStats, sellerIndex,
                 productIndex, rIdx, revCalls, bonusCalls, calls>>

\* The caller invokes analyzeSalesData again with the same arguments.  The
\* locals of the finished call are dead; the new call assigns its own.
CallAgain ==
  /\ pc \in {"done", "error"}
  /\ calls < MaxCalls
  /\ calls' = calls + 1
  /\ pc' = "start"
  /\ error' = "none"
  /\ revCalls' = <<>>
  /\ bonusCalls' = <<>>
  /\ UNCHANGED <<data, dataKind, options, sellerStats, sellerIndex, productIndex,
                 rIdx, results>>

Next ==
  \/ Validate
  \/ Prepare
  \/ ProcessRecord
  \/ SortSellers
  \/ AssignBonuses
  \/ Project
  \/ CallAgain

Spec == Init /\ [][Next]_vars

----------------------------------------------------------------------------
\* Vocabulary of the properties, stated over the arguments of the call

LastResult == results[Len(results)]

AggregationDone == pc \in {"sort", "bonus", "project", "done"}

BonusesAssigned == pc \in {"project", "done"}

\* Position in data.sellers of the seller an aggregate was built from (the
\* first names of the input sellers are pairwise distinct).
InputPos(stat) ==
  CHOOSE k \in 1..Len(data.sellers) : data.sellers[k].first_name = stat.name[1]

KnownSeller(record) ==
  \E k \in 1..Len(data.sellers) : data.sellers[k].id = record.seller_id

\* The record's seller_id resolves to the seller at position k: the last
\* seller carrying that id.
AttributedTo(record, k) ==
  /\ data.sellers[k].id = record.seller_id
  /\ \A j \in 1..Len(data.sellers) : data.sellers[j].id = record.seller_id => j <= k

KnownSku(item) ==
  \E p \in 1..Len(data.products) : data.products[p].sku = item.sku

ResolvedProduct(item) ==
  data.products[CHOOSE p \in 1..Len(data.products) :
                  /\ data.products[p].sku = item.sku
                  /\ \A q \in 1..Len(data.products) :
                       data.products[q].sku = item.sku => q <= p]

ItemProfit(item) ==
  IF KnownSku(item)
    THEN calculateRevenue(item, ResolvedProduct(item))
         - ResolvedProduct(item).purchase_price * item.quantity
    ELSE 0

ItemCall(item) ==
  IF KnownSku(item)
    THEN <<[item |-> item, product |-> ResolvedProduct(item)]>>
    ELSE <<>>

RecordProfit(record) ==
  SumSeq([n \in 1..Len(record.items) |-> ItemProfit(record.items[n])])

RecordCalls(record) ==
  IF KnownSeller(record)
    THEN Flatten([n \in 1..Len(record.items) |-> ItemCall(record.items[n])])
    ELSE <<>>

Abs(x) == IF x < 0 THEN -x ELSE x

----------------------------------------------------------------------------
\* The arguments the validation is to reject
Malformed ==
  \/ dataKind.data \in {"undefined", "null"}
  \/ \E c \in {"sellers", "products", "purchase_records"} : dataKind[c] # "array"
  \/ data.sellers = <<>> \/ data.products = <<>> \/ data.purchase_records = <<>>
  \/ options.kind # "object"
  \/ options.calculateRevenue \notin RevenueFunctions \cup BonusFunctions
  \/ options.calculateBonus \notin RevenueFunctions \cup BonusFunctions

\* C1: when the dataset is absent, or one of sellers / products /
\* purchase_records is not an array or is empty, or options is absent or not
\* an object, or a strategy is missing or not a function, the call goes from
\* its start straight to an error, and no step of it returns a result,
\* invokes a strategy or builds a seller aggregate.
C1_MalformedInputFails ==
  [][Malformed =>
       /\ pc = "start" => (pc' = "error" /\ error' # "none")
       /\ pc' \in {"start", "error"}
       /\ results' = <<>>
       /\ revCalls' = <<>>
       /\ bonusCalls' = <<>>
       /\ sellerStats' = <<>>]_vars

C1_Witness ==
  /\ pc = "error"
  /\ error = "InvalidDataset"
  /\ dataKind = WellFormedKind
  /\ data.products = <<>>
  /\ data.sellers # <<>>
  /\ data.purchase_records # <<>>
  /\ options = DefaultOptions
  /\ calls = 2

\* C3: once the records are scanned, every seller's sales_count is the
\* number of purchase records whose seller_id resolves to that seller,
\* whatever the number of their line items, and the sales_count of the
\* returned records add up to the number of purchase records whose
\* seller_id is the id of some seller.
C3_SalesCountConservation ==
  /\ AggregationDone =>
       \A i \in 1..Len(sellerStats) :
         sellerStats[i].sales_count =
           Cardinality({r \in 1..Len(data.purchase_records) :
                          AttributedTo(data.purchase_records[r],
                                       InputPos(sellerStats[i]))})
  /\ pc = "done" =>
       SumSeq([i \in 1..Len(LastResult) |-> LastResult[i].sales_count]) =
         Cardinality({r \in 1..Len(data.purchase_records) :
                        KnownSeller(data.purchase_records[r])})

C3_Witness ==
  /\ pc = "done"
  /\ Len(data.purchase_records) = 2
  /\ ~KnownSeller(data.purchase_records[1])
  /\ KnownSeller(data.purchase_records[2])
  /\ Len(data.purchase_records[2].items) = 2
  /\ \E i \in 1..Len(LastResult) : LastResult[i].sales_count = 1
  /\ \E i \in 1..Len(LastResult) : LastResult[i].sales_count = 0

\* C7: once the records are scanned, every seller's unrounded revenue is
\* the sum of total_amount over the purchase records whose seller_id
\* resolves to that seller, whatever their line items and whatever
\* calculateRevenue returns.
C7_RevenueIsSumOfTotals ==
  AggregationDone =>
    \A i \in 1..Len(sellerStats) :
      sellerStats[i].revenue =
        SumSeq([r \in 1..Len(data.purchase_records) |->
                  IF AttributedTo(data.purchase_records[r], InputPos(sellerStats[i]))
                    THEN data.purchase_records[r].total_amount
                    ELSE 0])

C7_Witness ==
  /\ pc = "done"
  /\ revCalls # <<>>
  /\ \E i \in 1..Len(sellerStats) :
       /\ sellerStats[i].sales_count = 2
       /\ sellerStats[i].revenue = 1125000
       /\ sellerStats[i].profit = 500000

\* C9: once the records are scanned, every seller's unrounded profit is the
\* sum, over the line items with a known sku of the purchase records whose
\* seller_id resolves to that seller, of calculateRevenue(item, product)
\* minus product.purchase_price * item.quantity, and calculateRevenue has
\* been invoked once for each such line item, with the item and its
\* product, and for no other.
C9_ProfitIsSumOfItemProfits ==
  AggregationDone =>
    /\ \A i \in 1..Len(sellerStats) :
         sellerStats[i].profit =
           SumSeq([r \in 1..Len(data.purchase_records) |->
                     IF AttributedTo(data.purchase_records[r], InputPos(sellerStats[i]))
                       THEN RecordProfit(data.purchase_records[r])
                       ELSE 0])
    /\ revCalls =
         Flatten([r \in 1..Len(data.purchase_records) |->
                    RecordCalls(data.purchase_records[r])])

C9_Witness ==
  /\ pc = "done"
  /\ Len(revCalls) = 2
  /\ revCalls[1].product = CardTwoDear
  /\ revCalls[2].product = CardOne
  /\ \E i \in 1..Len(sellerStats) : sellerStats[i].profit = -250000

C9_WitnessUnknownSeller ==
  /\ pc = "done"
  /\ Len(data.purchase_records) = 2
  /\ ~KnownSeller(data.purchase_records[1])
  /\ data.purchase_records[1].items # <<>>
  /\ Len(revCalls) = 1

\* C2: the returned array holds one record per input seller, sellers
\* without any purchase record included, in order of non-increasing profit;
\* sellers whose profit totals are equal stand in the order they have in
\* data.sellers.  (Totals that differ, such as 0.125 and 0.13, may round to
\* the same returned profit; those sellers are ordered by the totals.)
C2_OneRecordPerSellerSortedStable ==
  pc = "done" =>
    /\ Len(LastResult) = Len(data.sellers)
    /\ \A k \in 1..Len(data.sellers) :
         Cardinality({i \in 1..Len(LastResult) :
                        /\ LastResult[i].seller_id = data.sellers[k].id
                        /\ LastResult[i].name[1] = data.sellers[k].first_name}) = 1
    /\ \A i \in 1..Len(LastResult) - 1 :
         /\ LastResult[i].profit >= LastResult[i + 1].profit
         /\ sellerStats[i].profit >= sellerStats[i + 1].profit
    /\ \A i, j \in 1..Len(LastResult) :
         (i < j /\ sellerStats[i].profit = sellerStats[j].profit)
           => InputPos(LastResult[i]) < InputPos(LastResult[j])

C2_Witness ==
  /\ pc = "done"
  /\ Len(LastResult) = 5
  /\ sellerStats[1].profit = sellerStats[2].profit
  /\ InputPos(LastResult[1]) = 2
  /\ InputPos(LastResult[2]) = 5
  /\ sellerStats[2].profit > sellerStats[3].profit
  /\ LastResult[2].profit = LastResult[3].profit
  /\ LastResult[4].sales_count = 0
  /\ LastResult[5].profit < 0

HasUnknownSku(record) ==
  \E n \in 1..Len(record.items) : ~KnownSku(record.items[n])

SoldQuantity(sold, sku) == IF ObjHas(sold, sku) THEN ObjGet(sold, sku) ELSE 0

\* C4: in the step that scans a purchase record of a known seller holding a
\* line item with an unknown sku, the seller's sales_count grows by 1 and
\* the revenue by total_amount; the profit grows by the profits of the line
\* items with a known sku alone; the quantity sold of every known sku of the
\* record grows by the quantities of its line items, no unknown sku enters
\* products_sold, and calculateRevenue is invoked for the line items with a
\* known sku, in order, and for no other.
C4_UnknownSkuItemSkipped ==
  [][(/\ pc = "records"
      /\ KnownSeller(data.purchase_records[rIdx])
      /\ HasUnknownSku(data.purchase_records[rIdx]))
     => LET record == data.purchase_records[rIdx]
            k == CHOOSE k \in 1..Len(data.sellers) : AttributedTo(record, k)
            before == sellerStats[k]
            after == sellerStats'[k]
        IN /\ after.sales_count = before.sales_count + 1
           /\ after.revenue = before.revenue + record.total_amount
           /\ after.profit = before.profit + RecordProfit(record)
           /\ revCalls' = revCalls \o RecordCalls(record)
           /\ \A n \in 1..Len(record.items) :
                LET sku == record.items[n].sku
                IN IF KnownSku(record.items[n])
                     THEN SoldQuantity(after.products_sold, sku) =
                            SoldQuantity(before.products_sold, sku)
                            + SumSeq([m \in 1..Len(record.items) |->
                                        IF record.items[m].sku = sku
                                          THEN record.items[m].quantity ELSE 0])
                     ELSE ObjHas(after.products_sold, sku)
                            = ObjHas(before.products_sold, sku)
           /\ \A j \in 1..Len(sellerStats) : j # k => sellerStats'[j] = sellerStats[j]]_vars

C4_Witness ==
  /\ pc = "sort"
  /\ Len(data.purchase_records) = 1
  /\ LET items == data.purchase_records[1].items
     IN /\ Len(items) = 3
        /\ KnownSku(items[1])
        /\ ~KnownSku(items[2])
        /\ KnownSku(items[3])
        /\ items[1].sku # items[3].sku
        /\ Len(sellerStats[1].products_sold) = 2
        /\ ~ObjHas(sellerStats[1].products_sold, items[2].sku)
  /\ Len(revCalls) = 2
  /\ sellerStats[1].sales_count = 1
  /\ sellerStats[1].revenue = 1000000
  /\ sellerStats[1].profit # 0

\* Percent of the profit due at each rank, by number of sellers
RateTable(total) ==
  IF total = 1 THEN <<15>>
  ELSE IF total = 2 THEN <<15, 10>>
  ELSE IF total = 3 THEN <<15, 10, 10>>
  ELSE <<15, 10, 10>> \o [i \in 1..total - 4 |-> 5] \o <<0>>

\* C5: with calculateBonusByProfit as the bonus strategy and n sellers, the
\* strategy is invoked with ranks 0 .. n-1 and total n, and the bonuses in
\* rank order are 15% of the seller's profit for one seller, 15% and 10%
\* for two, 15%, 10%, 10% for three, and 15%, 10%, 10%, 5%, ..., 5%, 0 for
\* four or more (15%, 10%, 10%, 5%, 0 for five); the returned bonus is that
\* amount rounded to the nearest hundredth.
C5_DefaultBonusByRank ==
  (BonusesAssigned /\ options.calculateBonus = "calculateBonusByProfit") =>
    LET n == Len(sellerStats)
    IN /\ bonusCalls = [i \in 1..n |-> [index |-> i - 1, total |-> n]]
       /\ \A i \in 1..n :
            /\ 100 * sellerStats[i].bonus = RateTable(n)[i] * sellerStats[i].profit
            /\ pc = "done" =>
                 2 * Abs(100 * LastResult[i].bonus
                         - RateTable(n)[i] * sellerStats[i].profit) <= 100 * 10000

C5_Witness ==
  /\ pc = "done"
  /\ options.calculateBonus = "calculateBonusByProfit"
  /\ Len(sellerStats) = 5
  /\ \A i \in 1..5 : sellerStats[i].profit = 125000
  /\ [i \in 1..5 |-> sellerStats[i].bonus] = <<18750, 12500, 12500, 6250, 0>>
  /\ [i \in 1..5 |-> LastResult[i].bonus] = <<20000, 10000, 10000, 10000, 0>>

\* The skus a seller sold, in the order the scan first meets them
RECURSIVE Distinct(_)
Distinct(s) ==
  IF s = <<>> THEN <<>>
  ELSE LET rest == Distinct(SubSeq(s, 1, Len(s) - 1))
           last == s[Len(s)]
       IN IF \E i \in 1..Len(rest) : rest[i] = last THEN rest ELSE Append(rest, last)

SoldItems(k) ==
  Flatten([r \in 1..Len(data.purchase_records) |->
             IF AttributedTo(data.purchase_records[r], k)
               THEN SelectSeq(data.purchase_records[r].items, KnownSku)
               ELSE <<>>])

FirstMetPairs(k) ==
  LET items == SoldItems(k)
      skus == Distinct([n \in 1..Len(items) |-> items[n].sku])
  IN [n \in 1..Len(skus) |->
        [sku |-> skus[n],
         quantity |-> SumSeq([m \in 1..Len(items) |->
                                IF items[m].sku = skus[n] THEN items[m].quantity ELSE 0])]]

\* Place of pair n among the pairs by falling quantity, ties by position
PlaceOf(pairs, n) ==
  1 + Cardinality({m \in 1..Len(pairs) :
                     \/ pairs[m].quantity > pairs[n].quantity
                     \/ pairs[m].quantity = pairs[n].quantity /\ m < n})

ExpectedTopProducts(k) ==
  LET pairs == FirstMetPairs(k)
      ranked == [p \in 1..Len(pairs) |->
                   pairs[CHOOSE n \in 1..Len(pairs) : PlaceOf(pairs, n) = p]]
  IN SubSeq(ranked, 1, IF Len(ranked) > 10 THEN 10 ELSE Len(ranked))

\* C6: every seller's top_products lists the known skus the seller sold,
\* each with the total quantity sold, by falling quantity, skus of equal
\* quantity in the order in which the scan first met them, cut to the first
\* 10.
C6_TopProductsFirstMetOrder ==
  BonusesAssigned =>
    \A i \in 1..Len(sellerStats) :
      sellerStats[i].top_products = ExpectedTopProducts(InputPos(sellerStats[i]))

\* The same with skus that are not array indices only: there Object.entries
\* lists the skus in the order they were first met.
NoIndexSkuSold ==
  \A r \in 1..Len(data.purchase_records) :
    \A n \in 1..Len(data.purchase_records[r].items) :
      ~IsArrayIndex(data.purchase_records[r].items[n].sku)

TopProductsOfNamedSkus ==
  (BonusesAssigned /\ NoIndexSkuSold) =>
    \A i \in 1..Len(sellerStats) :
      /\ sellerStats[i].top_products = ExpectedTopProducts(InputPos(sellerStats[i]))
      /\ pc = "done" => LastResult[i].top_products = sellerStats[i].top_products

TwelveSkusCut ==
  /\ pc = "done"
  /\ Len(data.products) = 12
  /\ Len(sellerStats[1].products_sold) = 12
  /\ Len(LastResult[1].top_products) = 10
  /\ LastResult[1].top_products[1] = [sku |-> "SKU_12", quantity |-> 12]
  /\ LastResult[1].top_products[10] = [sku |-> "SKU_03", quantity |-> 3]

\* r is x rounded to hundredths, halves away from zero
IsRounded(r, x) ==
  /\ r % 10000 = 0
  /\ 2 * Abs(r - x) <= 10000
  /\ 2 * Abs(r - x) = 10000 => Abs(r) > Abs(x)

\* C8: in every returned record, revenue, profit and bonus are the multiples
\* of 0.01 nearest to the unrounded totals, the one farther from zero when
\* two are equally near; sales_count and top_products are those of the
\* aggregate.
C8_OutputRoundedToHundredths ==
  pc = "done" =>
    \A i \in 1..Len(LastResult) :
      /\ IsRounded(LastResult[i].revenue, sellerStats[i].revenue)
      /\ IsRounded(LastResult[i].profit, sellerStats[i].profit)
      /\ IsRounded(LastResult[i].bonus, sellerStats[i].bonus)
      /\ LastResult[i].sales_count = sellerStats[i].sales_count
      /\ LastResult[i].top_products = sellerStats[i].top_products

C8_Witness ==
  /\ pc = "done"
  /\ \E i \in 1..Len(LastResult) :
       /\ sellerStats[i].profit = -125000
       /\ LastResult[i].profit = -130000
       /\ sellerStats[i].bonus = -6250
       /\ LastResult[i].bonus = -10000
  /\ \E i \in 1..Len(LastResult) :
       /\ sellerStats[i].profit = 125000
       /\ LastResult[i].profit = 130000
       /\ sellerStats[i].bonus = 18750
       /\ LastResult[i].bonus = 20000

\* C10: no step of a call changes the arguments, and a second call on the
\* same arguments returns what the first returned.
C10_InputUnchangedAndRepeatable ==
  [][/\ data' = data
     /\ dataKind' = dataKind
     /\ options' = options
     /\ Len(results') >= 2 => results'[Len(results')] = results'[1]]_vars

C10_Witness ==
  /\ pc = "done"
  /\ calls = 2
  /\ Len(results) = 2
  /\ Len(data.sellers) >= 2
  /\ results[2] = results[1]
  /\ \E i \in 1..Len(sellerStats) : sellerStats[i].revenue > 0
  /\ InputPos(sellerStats[1]) # 1

====
